---- MODULE Spec2Model ----
(***************************************************************************)
(* A model of the QR code matrix generator of src/qr.ts (class QrCode):    *)
(* the constructor's resolution of mode, version and mask, and generate()  *)
(* with its stages encode, augumentEccs/calculateEcc, makeBaseMatrix,      *)
(* putData, findBestMask/evaluateMatrix, maskData and putFormatInfo.       *)
(*                                                                         *)
(* JavaScript values are modelled as integers.  Three values that are not  *)
(* numbers get a code of their own: UNDEF (undefined), NAN (NaN) and       *)
(* NESTED (the array object that calculateEcc pushes as ONE element).      *)
(* A text is the sequence of its UTF-16 code units; JavaScript's 0-based   *)
(* index i is the 1-based index i+1 of the sequence.                       *)
(***************************************************************************)
EXTENDS Integers, Sequences, FiniteSets, TLC

VARIABLES
  data,      \* constructor argument `data`, kept as this.data
  options,   \* constructor argument `options`
  mode,      \* this.mode
  ecclevel,  \* this.ecclevel
  mask,      \* this.mask
  ver,       \* this.ver
  matrix,    \* this.matrix
  reserved,  \* this.reserved
  buf,       \* the local `buf` of generate()
  pc,        \* position of the caller: before new, inside generate(), after it
  err,       \* what the running call threw ("" when nothing was thrown)
  ecc        \* a call of the static calculateEcc: its arguments and result

vars == <<data, options, mode, ecclevel, mask, ver, matrix, reserved, buf, pc, err, ecc>>

(***************************************************************************)
(* JavaScript values that are not numbers                                  *)
(***************************************************************************)
UNDEF == -1000
NAN == -2000
NESTED == -3000

\* an option key that is absent: a number-valued key reads as UNDEF, a
\* string-valued key as this string
NoOption == "undefined"

\* ToInt32 as the operators >>, &, | and ^ apply it to an operand; every number
\* the model feeds to them is in 0 .. 2^31-1
ToInt32(x) == IF x \in {UNDEF, NAN, NESTED} THEN 0 ELSE x

\* a value that `x || y` keeps
Truthy(x) == x \notin {0, UNDEF, NAN}

\* 1 << n for n in 0..30
Pow2(n) ==
  <<1, 2, 4, 8, 16, 32, 64, 128, 256, 512, 1024, 2048, 4096, 8192, 16384, 32768,
    65536, 131072, 262144, 524288, 1048576, 2097152, 4194304, 8388608, 16777216,
    33554432, 67108864, 134217728, 268435456, 536870912, 1073741824>>[n + 1]

\* x >> n and x & ((1 << n) - 1) on non-negative numbers
Shr(x, n) == ToInt32(x) \div Pow2(n)
LowBits(x, n) == ToInt32(x) % Pow2(n)

RECURSIVE BitXor(_, _)
BitXor(a, b) ==
  IF a = 0 THEN b
  ELSE IF b = 0 THEN a
  ELSE (((a % 2) + (b % 2)) % 2) + 2 * BitXor(a \div 2, b \div 2)

RECURSIVE BitOr(_, _)
BitOr(a, b) ==
  IF a = 0 THEN b
  ELSE IF b = 0 THEN a
  ELSE (IF (a % 2) + (b % 2) > 0 THEN 1 ELSE 0) + 2 * BitOr(a \div 2, b \div 2)

Xor(a, b) == BitXor(ToInt32(a), ToInt32(b))
Or(a, b) == BitOr(ToInt32(a), ToInt32(b))

(***************************************************************************)
(* Static tables                                                           *)
(***************************************************************************)
\* enum MODE
MODE_TERMINATOR == 0
MODE_NUMERIC == 1
MODE_ALPHANUMERIC == 2
MODE_OCTET == 4
MODE_KANJI == 8

\* enum ERROR_CORRECTION
ECC_L == 1
ECC_M == 0
ECC_Q == 3
ECC_H == 2

MaxVersion == 40

VERSIONS ==
  <<
     <<<<10, 7, 17, 13>>, <<1, 1, 1, 1>>, <<>>>>,
     <<<<16, 10, 28, 22>>, <<1, 1, 1, 1>>, <<4, 16>>>>,
     <<<<26, 15, 22, 18>>, <<1, 1, 2, 2>>, <<4, 20>>>>,
     <<<<18, 20, 16, 26>>, <<2, 1, 4, 2>>, <<4, 24>>>>,
     <<<<24, 26, 22, 18>>, <<2, 1, 4, 4>>, <<4, 28>>>>,
     <<<<16, 18, 28, 24>>, <<4, 2, 4, 4>>, <<4, 32>>>>,
     <<<<18, 20, 26, 18>>, <<4, 2, 5, 6>>, <<4, 20, 36>>>>,
     <<<<22, 24, 26, 22>>, <<4, 2, 6, 6>>, <<4, 22, 40>>>>,
     <<<<22, 30, 24, 20>>, <<5, 2, 8, 8>>, <<4, 24, 44>>>>,
     <<<<26, 18, 28, 24>>, <<5, 4, 8, 8>>, <<4, 26, 48>>>>,
     <<<<30, 20, 24, 28>>, <<5, 4, 11, 8>>, <<4, 28, 52>>>>,
     <<<<22, 24, 28, 26>>, <<8, 4, 11, 10>>, <<4, 30, 56>>>>,
     <<<<22, 26, 22, 24>>, <<9, 4, 16, 12>>, <<4, 32, 60>>>>,
     <<<<24, 30, 24, 20>>, <<9, 4, 16, 16>>, <<4, 24, 44, 64>>>>,
     <<<<24, 22, 24, 30>>, <<10, 6, 18, 12>>, <<4, 24, 46, 68>>>>,
     <<<<28, 24, 30, 24>>, <<10, 6, 16, 17>>, <<4, 24, 48, 72>>>>,
     <<<<28, 28, 28, 28>>, <<11, 6, 19, 16>>, <<4, 28, 52, 76>>>>,
     <<<<26, 30, 28, 28>>, <<13, 6, 21, 18>>, <<4, 28, 54, 80>>>>,
     <<<<26, 28, 26, 26>>, <<14, 7, 25, 21>>, <<4, 28, 56, 84>>>>,
     <<<<26, 28, 28, 30>>, <<16, 8, 25, 20>>, <<4, 32, 60, 88>>>>,
     <<<<26, 28, 30, 28>>, <<17, 8, 25, 23>>, <<4, 26, 48, 70, 92>>>>,
     <<<<28, 28, 24, 30>>, <<17, 9, 34, 23>>, <<4, 24, 48, 72, 96>>>>,
     <<<<28, 30, 30, 30>>, <<18, 9, 30, 25>>, <<4, 28, 52, 76, 100>>>>,
     <<<<28, 30, 30, 30>>, <<20, 10, 32, 27>>, <<4, 26, 52, 78, 104>>>>,
     <<<<28, 26, 30, 30>>, <<21, 12, 35, 29>>, <<4, 30, 56, 82, 108>>>>,
     <<<<28, 28, 30, 28>>, <<23, 12, 37, 34>>, <<4, 28, 56, 84, 112>>>>,
     <<<<28, 30, 30, 30>>, <<25, 12, 40, 34>>, <<4, 32, 60, 88, 116>>>>,
     <<<<28, 30, 30, 30>>, <<26, 13, 42, 35>>, <<4, 24, 48, 72, 96, 120>>>>,
     <<<<28, 30, 30, 30>>, <<28, 14, 45, 38>>, <<4, 28, 52, 76, 100, 124>>>>,
     <<<<28, 30, 30, 30>>, <<29, 15, 48, 40>>, <<4, 24, 50, 76, 102, 128>>>>,
     <<<<28, 30, 30, 30>>, <<31, 16, 51, 43>>, <<4, 28, 54, 80, 106, 132>>>>,
     <<<<28, 30, 30, 30>>, <<33, 17, 54, 45>>, <<4, 32, 58, 84, 110, 136>>>>,
     <<<<28, 30, 30, 30>>, <<35, 18, 57, 48>>, <<4, 28, 56, 84, 112, 140>>>>,
     <<<<28, 30, 30, 30>>, <<37, 19, 60, 51>>, <<4, 32, 60, 88, 116, 144>>>>,
     <<<<28, 30, 30, 30>>, <<38, 19, 63, 53>>, <<4, 28, 52, 76, 100, 124, 148>>>>,
     <<<<28, 30, 30, 30>>, <<40, 20, 66, 56>>, <<4, 22, 48, 74, 100, 126, 152>>>>,
     <<<<28, 30, 30, 30>>, <<43, 21, 70, 59>>, <<4, 26, 52, 78, 104, 130, 156>>>>,
     <<<<28, 30, 30, 30>>, <<45, 22, 74, 62>>, <<4, 30, 56, 82, 108, 134, 160>>>>,
     <<<<28, 30, 30, 30>>, <<47, 24, 77, 65>>, <<4, 24, 52, 80, 108, 136, 164>>>>,
     <<<<28, 30, 30, 30>>, <<49, 25, 81, 68>>, <<4, 28, 56, 84, 112, 140, 168>>>>
  >>

\* VERSIONS[v] = <<[0] degree of the generator polynomial, [1] number of code
\* blocks, [2] positions of the alignment patterns>>; the `null` entry 0 of
\* the source is left out, an inner array index e is index e+1 here
V0(v, e) == VERSIONS[v][1][e + 1]
V1(v, e) == VERSIONS[v][2][e + 1]
V2(v) == VERSIONS[v][3]

\* REGEXP.NUMERIC = /^\d*$/ on a sequence of code units
IsDigit(c) == c \in 48..57
REGEXP_NUMERIC(s) == \A i \in 1..Len(s) : IsDigit(s[i])

\* the 45 characters "0123456789ABCDEFGHIJKLMNOPQRSTUVWXYZ $%*+-./:" in order
ALPHANUMERIC_CHARS ==
  <<48, 49, 50, 51, 52, 53, 54, 55, 56, 57,
    65, 66, 67, 68, 69, 70, 71, 72, 73, 74, 75, 76, 77, 78, 79, 80, 81, 82, 83,
    84, 85, 86, 87, 88, 89, 90,
    32, 36, 37, 42, 43, 45, 46, 47, 58>>

\* REGEXP.ALPHANUMERIC_OUT = /^[A-Z0-9 $%*+\-./:]*$/
IsAlnumOut(c) == c \in (48..57) \cup (65..90) \cup {32, 36, 37, 42, 43, 45, 46, 47, 58}
REGEXP_ALPHANUMERIC_OUT(s) == \A i \in 1..Len(s) : IsAlnumOut(s[i])

\* REGEXP.ALPHANUMERIC = /^[A-Za-z0-9 $%*+\-./:]*$/
REGEXP_ALPHANUMERIC(s) == \A i \in 1..Len(s) : IsAlnumOut(s[i]) \/ s[i] \in 97..122

\* ALPHANUMERIC_MAP[ch]: the index of ch in the 45 characters, else undefined
ALPHANUMERIC_MAP(c) ==
  IF \E i \in 1..45 : ALPHANUMERIC_CHARS[i] = c
  THEN (CHOOSE i \in 1..45 : ALPHANUMERIC_CHARS[i] = c) - 1
  ELSE UNDEF

\* the constructor's MODES[options.mode.toLowerCase()]
MODES(name) ==
  CASE name \in {"numeric", "NUMERIC"} -> MODE_NUMERIC
    [] name \in {"alphanumeric", "ALPHANUMERIC"} -> MODE_ALPHANUMERIC
    [] name \in {"octet", "OCTET"} -> MODE_OCTET
    [] OTHER -> UNDEF

\* the constructor's ECCLEVELS[options.ecclevel?.toUpperCase() || "L"]
ECCLEVELS(name) ==
  CASE name \in {NoOption, "L", "l"} -> ECC_L
    [] name \in {"M", "m"} -> ECC_M
    [] name \in {"Q", "q"} -> ECC_Q
    [] name \in {"H", "h"} -> ECC_H
    [] OTHER -> UNDEF

(***************************************************************************)
(* Capacity                                                                *)
(***************************************************************************)
needsVerInfo(v) == v > 6

getSizeByVer(v) == 4 * v + 17

\* nFullBits without `if (this.needsVerInfo()) nbits -= 36`
nFullBitsNoVersionInfo(v) ==
  LET m == Len(V2(v))
      nbits0 == 16 * v * v + 128 * v + 64
  IN  IF m # 0 THEN nbits0 - (25 * m * m - 10 * m - 55) ELSE nbits0

nFullBits(v) ==
  LET m == Len(V2(v))
      nbits0 == 16 * v * v + 128 * v + 64
      nbits1 == IF needsVerInfo(v) THEN nbits0 - 36 ELSE nbits0
  IN  IF m # 0 THEN nbits1 - (25 * m * m - 10 * m - 55) ELSE nbits1

\* (nFullBits & ~7) - 8 * VERSIONS[ver][0][ecclevel] * VERSIONS[ver][1][ecclevel]
nDataBits(v, e) == (nFullBits(v) - (nFullBits(v) % 8)) - 8 * V0(v, e) * V1(v, e)

\* the table of nDataLenBits indexed by this.mode: a mode that is no key of
\* the table (the -1 of an unresolved mode) reads undefined
nDataLenBits(v, m) ==
  CASE m = MODE_NUMERIC -> IF v < 10 THEN 10 ELSE IF v < 27 THEN 12 ELSE 14
    [] m = MODE_ALPHANUMERIC -> IF v < 10 THEN 9 ELSE IF v < 27 THEN 11 ELSE 13
    [] m = MODE_OCTET -> IF v < 10 THEN 8 ELSE 16
    [] m = MODE_KANJI -> IF v < 10 THEN 8 ELSE IF v < 27 THEN 10 ELSE 12
    [] OTHER -> UNDEF

getMaxDataLen(v, e, m) ==
  LET nbits == nDataBits(v, e) - 4 - nDataLenBits(v, m)
  IN  CASE m = MODE_NUMERIC ->
             (nbits \div 10) * 3 + (IF nbits % 10 < 4 THEN 0 ELSE IF nbits % 10 < 7 THEN 1 ELSE 2)
        [] m = MODE_ALPHANUMERIC -> (nbits \div 11) * 2 + (IF nbits % 11 < 6 THEN 0 ELSE 1)
        [] m = MODE_OCTET -> nbits \div 8
        [] m = MODE_KANJI -> nbits \div 13
        [] OTHER -> UNDEF

\* a < b and a <= b of JavaScript for a number a: false when b is undefined
JsLt(a, b) == b # UNDEF /\ a < b
JsLeq(a, b) == b # UNDEF /\ a <= b

(***************************************************************************)
(* validateData                                                            *)
(***************************************************************************)
RECURSIVE Utf8From(_, _)
Utf8From(s, i) ==
  IF i > Len(s) THEN <<>>
  ELSE LET ch == s[i]
           enc == IF ch < 128 THEN <<ch>>
                  ELSE IF ch < 2048 THEN <<192 + (ch \div 64), 128 + (ch % 64)>>
                  ELSE IF ch < 65536
                       THEN <<224 + (ch \div 4096), 128 + ((ch \div 64) % 64), 128 + (ch % 64)>>
                       ELSE <<240 + (ch \div 262144), 128 + ((ch \div 4096) % 64),
                              128 + ((ch \div 64) % 64), 128 + (ch % 64)>>
       IN  enc \o Utf8From(s, i + 1)

\* the OCTET entry of validateData: a text as its UTF-8 bytes
Utf8(s) == Utf8From(s, 1)

\* this.data.match is called whatever the mode is: a payload that is no text
\* has no method `match`, and the call throws a TypeError
validateDataThrows(d) == d.type # "string"

\* the value validateData returns: table[this.mode] || this.data, where null
\* and the empty text are falsy, and this.data.toUpperCase is the method
\* itself, not its result
validateData(d, m) ==
  CASE m = MODE_ALPHANUMERIC /\ REGEXP_ALPHANUMERIC(d.v) -> [type |-> "function", v |-> <<>>]
    [] m = MODE_OCTET -> [type |-> "array", v |-> Utf8(d.v)]
    [] OTHER -> d

(***************************************************************************)
(* GF(2^8) and the generator polynomials                                   *)
(***************************************************************************)
\* a[i] of a JavaScript array held as a sequence: undefined outside it
At(a, i) == IF i + 1 \in DOMAIN a THEN a[i + 1] ELSE UNDEF

\* a[i] = x: the array grows, with holes, when i is beyond its end
SetAt(a, i, x) ==
  IF i < Len(a) THEN [a EXCEPT ![i + 1] = x]
  ELSE [t \in 1..(i + 1) |-> IF t <= Len(a) THEN a[t] ELSE IF t = i + 1 THEN x ELSE UNDEF]

\* v = (v * 2) ^ (v >= 128 ? 0x11d : 0)
Xtime(v) == BitXor(v * 2, IF v >= 128 THEN 285 ELSE 0)

\* for (i = 0, v = 1; i < 255; ++i) { MAP.push(v); ...; v = (v * 2) ^ ... }:
\* the table that starts with 1 and goes on by Xtime, 255 long
GF256_MAP_TABLE ==
  CHOOSE MAP \in {<<
    1, 2, 4, 8, 16, 32, 64, 128, 29, 58, 116, 232, 205, 135, 19, 38,
    76, 152, 45, 90, 180, 117, 234, 201, 143, 3, 6, 12, 24, 48, 96, 192,
    157, 39, 78, 156, 37, 74, 148, 53, 106, 212, 181, 119, 238, 193, 159, 35,
    70, 140, 5, 10, 20, 40, 80, 160, 93, 186, 105, 210, 185, 111, 222, 161,
    95, 190, 97, 194, 153, 47, 94, 188, 101, 202, 137, 15, 30, 60, 120, 240,
    253, 231, 211, 187, 107, 214, 177, 127, 254, 225, 223, 163, 91, 182, 113, 226,
    217, 175, 67, 134, 17, 34, 68, 136, 13, 26, 52, 104, 208, 189, 103, 206,
    129, 31, 62, 124, 248, 237, 199, 147, 59, 118, 236, 197, 151, 51, 102, 204,
    133, 23, 46, 92, 184, 109, 218, 169, 79, 158, 33, 66, 132, 21, 42, 84,
    168, 77, 154, 41, 82, 164, 85, 170, 73, 146, 57, 114, 228, 213, 183, 115,
    230, 209, 191, 99, 198, 145, 63, 126, 252, 229, 215, 179, 123, 246, 241, 255,
    227, 219, 171, 75, 150, 49, 98, 196, 149, 55, 110, 220, 165, 87, 174, 65,
    130, 25, 50, 100, 200, 141, 7, 14, 28, 56, 112, 224, 221, 167, 83, 166,
    81, 162, 89, 178, 121, 242, 249, 239, 195, 155, 43, 86, 172, 69, 138, 9,
    18, 36, 72, 144, 61, 122, 244, 245, 247, 243, 251, 235, 203, 139, 11, 22,
    44, 88, 176, 125, 250, 233, 207, 131, 27, 54, 108, 216, 173, 71, 142>>} :
    /\ Len(MAP) = 255
    /\ MAP[1] = 1
    /\ \A i \in 1..254 : MAP[i + 1] = Xtime(MAP[i])

\* INVMAP = [-1], then INVMAP[v] = i for every i in turn: the last i with
\* MAP[i] = v stays
GF256_INVMAP_TABLE ==
  [t \in 1..256 |->
     LET v == t - 1
         I == {i \in 0..254 : GF256_MAP_TABLE[i + 1] = v}
     IN  IF I # {} THEN CHOOSE i \in I : \A k \in I : k <= i
         ELSE IF v = 0 THEN -1 ELSE UNDEF]

GF256_MAP(i) == At(GF256_MAP_TABLE, i)
GF256_INVMAP(v) == At(GF256_INVMAP_TABLE, v)

\* one polynomial of the GENPOLY loop: poly[j] = INVMAP[a ^ b]
NextGenPoly(i, prevpoly) ==
  LET poly == [t \in 1..(i + 1) |->
                 LET j == t - 1
                     a == IF j < i THEN GF256_MAP(At(prevpoly, j)) ELSE 0
                     prev == At(prevpoly, j - 1)
                     b == GF256_MAP((i + (IF Truthy(prev) THEN prev ELSE 0)) % 255)
                 IN  GF256_INVMAP(BitXor(a, b))]
  IN  SubSeq(poly, 1, i + 1)

\* GENPOLY = [[]], then for (i = 0; i < 30; ++i) GENPOLY.push(poly made of
\* GENPOLY[i]): the table of 31 polynomials that starts with [] and goes on
\* by NextGenPoly.  GENPOLY[k] is GF256_GENPOLY[k + 1]
GF256_GENPOLY ==
  CHOOSE polys \in {<<
    <<>>,
    <<0>>,
    <<25, 1>>,
    <<198, 199, 3>>,
    <<75, 249, 78, 6>>,
    <<113, 164, 166, 119, 10>>,
    <<166, 0, 134, 5, 176, 15>>,
    <<87, 229, 146, 149, 238, 102, 21>>,
    <<175, 238, 208, 249, 215, 252, 196, 28>>,
    <<95, 246, 137, 231, 235, 149, 11, 123, 36>>,
    <<251, 67, 46, 61, 118, 70, 64, 94, 32, 45>>,
    <<220, 192, 91, 194, 172, 177, 209, 116, 227, 10, 55>>,
    <<102, 43, 98, 121, 187, 113, 198, 143, 131, 87, 157, 66>>,
    <<74, 152, 176, 100, 86, 100, 106, 104, 130, 218, 206, 140, 78>>,
    <<199, 249, 155, 48, 190, 124, 218, 137, 216, 87, 207, 59, 22, 91>>,
    <<8, 183, 61, 91, 202, 37, 51, 58, 58, 237, 140, 124, 5, 99, 105>>,
    <<120, 104, 107, 109, 102, 161, 76, 3, 91, 191, 147, 169, 182, 194, 225, 120>>,
    <<43, 139, 206, 78, 43, 239, 123, 206, 214, 147, 24, 99, 150, 39, 243, 163, 136>>,
    <<215, 234, 158, 94, 184, 97, 118, 170, 79, 187, 152, 148, 252, 179, 5, 98, 96, 153>>,
    <<67, 3, 105, 153, 52, 90, 83, 17, 150, 159, 44, 128, 153, 133, 252, 222, 138, 220, 171>>,
    <<17, 60, 79, 50, 61, 163, 26, 187, 202, 180, 221, 225, 83, 239, 156, 164, 212, 212, 188, 190>>,
    <<240, 233, 104, 247, 181, 140, 67, 98, 85, 200, 210, 115, 148, 137, 230, 36, 122, 254, 148, 175, 210>>,
    <<210, 171, 247, 242, 93, 230, 14, 109, 221, 53, 200, 74, 8, 172, 98, 80, 219, 134, 160, 105, 165, 231>>,
    <<171, 102, 146, 91, 49, 103, 65, 17, 193, 150, 14, 25, 183, 248, 94, 164, 224, 192, 1, 78, 56, 147, 253>>,
    <<229, 121, 135, 48, 211, 117, 251, 126, 159, 180, 169, 152, 192, 226, 228, 218, 111, 0, 117, 232, 87, 96, 227, 21>>,
    <<231, 181, 156, 39, 170, 26, 12, 59, 15, 148, 201, 54, 66, 237, 208, 99, 167, 144, 182, 95, 243, 129, 178, 252, 45>>,
    <<173, 125, 158, 2, 103, 182, 118, 17, 145, 201, 111, 28, 165, 53, 161, 21, 245, 142, 13, 102, 48, 227, 153, 145, 218, 70>>,
    <<79, 228, 8, 165, 227, 21, 180, 29, 9, 237, 70, 99, 45, 58, 138, 135, 73, 126, 172, 94, 216, 193, 157, 26, 17, 149, 96>>,
    <<168, 223, 200, 104, 224, 234, 108, 180, 110, 190, 195, 147, 205, 27, 232, 201, 21, 43, 245, 87, 42, 195, 212, 119, 242, 37, 9, 123>>,
    <<156, 45, 183, 29, 151, 219, 54, 96, 249, 24, 136, 5, 241, 175, 189, 28, 75, 234, 150, 148, 23, 9, 202, 162, 68, 250, 140, 24, 151>>,
    <<41, 173, 145, 152, 216, 31, 179, 182, 50, 48, 110, 86, 239, 96, 222, 125, 42, 173, 226, 193, 224, 130, 156, 37, 251, 216, 238, 40, 192, 180>>>>} :
    /\ Len(polys) = 31
    /\ polys[1] = <<>>
    /\ \A i \in 0..29 : polys[i + 2] = NextGenPoly(i, polys[i + 1])

GENPOLY(k) == GF256_GENPOLY[k + 1]

(***************************************************************************)
(* The constructor                                                         *)
(***************************************************************************)
\* for (this.ver = 1; this.ver <= 40; ++this.ver) if (data.length <= getMaxDataLen()) break;
RECURSIVE versionLoop(_, _, _, _)
versionLoop(v, len, e, m) ==
  IF v > MaxVersion THEN v
  ELSE IF JsLeq(len, getMaxDataLen(v, e, m)) THEN v
  ELSE versionLoop(v + 1, len, e, m)

\* what `new QrCode(d, o)` leaves in the fields, and what it throws ("" when
\* it returns an instance).  The steps are in the order of the source.
construct(d, o) ==
  LET ecc0 == ECCLEVELS(o.ecclevel)
      ver0 == IF o.version = UNDEF \/ o.version = 0 THEN -1 ELSE o.version
      mode0 == IF o.mode = NoOption THEN -1 ELSE MODES(o.mode)
      mask0 == IF o.mask = UNDEF THEN -1 ELSE o.mask
      detect == mode0 # UNDEF /\ mode0 < 0
      mode1 == IF detect /\ d.type = "string"
               THEN IF REGEXP_NUMERIC(d.v) THEN MODE_NUMERIC
                    ELSE IF REGEXP_ALPHANUMERIC_OUT(d.v) THEN MODE_ALPHANUMERIC
                    ELSE mode0
               ELSE mode0
      mode2 == IF detect THEN (IF Truthy(mode1) THEN mode1 ELSE MODE_OCTET) ELSE mode0
      badMode == ~detect /\ mode0 \notin {MODE_NUMERIC, MODE_ALPHANUMERIC, MODE_OCTET}
      badEcc == ecc0 # UNDEF /\ (ecc0 < 0 \/ ecc0 > 3)
      ver1 == IF ver0 < 0 THEN versionLoop(1, Len(d.v), ecc0, mode2) ELSE ver0
      badMask == mask0 # -1 /\ (mask0 < 0 \/ mask0 > 8)
      thrown ==
        CASE badMode -> "invalid or unsupported mode"
          [] ~badMode /\ validateDataThrows(d) -> "TypeError"
          [] ~badMode /\ ~validateDataThrows(d) /\ d.type = "null" -> "invalid data format"
          [] OTHER ->
               IF badEcc THEN "invalid ECC level"
               ELSE IF ver0 < 0 /\ ver1 > MaxVersion THEN "too large data"
               ELSE IF ver0 >= 0 /\ (ver0 < 1 \/ ver0 > MaxVersion) THEN "invalid version"
               ELSE IF badMask THEN "invalid mask"
               ELSE ""
      early == thrown \in {"invalid or unsupported mode", "TypeError",
                           "invalid data format", "invalid ECC level"}
  IN  [err |-> thrown,
       mode |-> mode2,
       ecclevel |-> ecc0,
       mask |-> mask0,
       ver |-> IF early THEN ver0 ELSE ver1]

Constructor(d, o) ==
  /\ pc = "new"
  /\ \E r \in {construct(d, o)} :
         /\ data' = d
         /\ options' = o
         /\ mode' = r.mode
         /\ ecclevel' = r.ecclevel
         /\ mask' = r.mask
         /\ ver' = r.ver
         /\ err' = r.err
         /\ pc' = IF r.err = "" THEN "constructed" ELSE "threw"
  /\ UNCHANGED <<matrix, reserved, buf, ecc>>

(***************************************************************************)
(* encode                                                                  *)
(***************************************************************************)
\* pack(x, n) on the locals buf, bits and remaining of encode.  A width n
\* that is undefined compares false both times, and nothing is packed.
PackState(b, bits, remaining) == [buf |-> b, bits |-> bits, remaining |-> remaining]

RECURSIVE packWhole(_, _, _)
packWhole(b, x, n) ==
  IF n >= 8 THEN packWhole(Append(b, Shr(x, n - 8) % 256), x, n - 8) ELSE b

pack(st, x, n) ==
  IF n = UNDEF THEN st
  ELSE IF n >= st.remaining
       THEN LET n1 == n - st.remaining
                b1 == Append(st.buf, Or(st.bits, Shr(x, n1)))
                n2 == n1 % 8
                b2 == packWhole(b1, x, n1)
            IN  IF n2 > 0
                THEN PackState(b2, LowBits(x, n2) * Pow2(8 - n2), 8 - n2)
                ELSE PackState(b2, 0, 8)
       ELSE IF n > 0
            THEN PackState(st.buf,
                           Or(st.bits, LowBits(x, n) * Pow2(st.remaining - n)),
                           st.remaining - n)
            ELSE st

\* parseInt(s, 10) of a text without white space or sign: the number its
\* leading digits write, NaN when it starts with no digit
RECURSIVE parseDigits(_, _, _)
parseDigits(s, i, acc) ==
  IF i <= Len(s) /\ IsDigit(s[i]) THEN parseDigits(s, i + 1, 10 * acc + (s[i] - 48)) ELSE acc

parseInt(s) == IF Len(s) > 0 /\ IsDigit(s[1]) THEN parseDigits(s, 1, 0) ELSE NAN

\* s.substring(from, to) for 0 <= from, with `to` cut to the length
Substring(s, from, to) ==
  LET hi == IF to > Len(s) THEN Len(s) ELSE to
  IN  IF from >= hi THEN <<>> ELSE SubSeq(s, from + 1, hi)

\* the locals of encode between two calls of pack
PackStates == [buf : Seq(Nat), bits : Nat, remaining : 1..8]

\* for (i = 2; i < data.length; i += 3) pack(parseInt(data.substring(i - 2, i + 1), 10), 10);
\* pack(parseInt(data.substring(i - 2), 10), [0, 4, 7][data.length % 3]);
packNumeric(st, s) ==
  LET loop[i \in Nat, q \in PackStates] ==
        IF i < Len(s)
        THEN loop[i + 3, pack(q, parseInt(Substring(s, i - 2, i + 1)), 10)]
        ELSE pack(q, parseInt(Substring(s, i - 2, Len(s))), <<0, 4, 7>>[(Len(s) % 3) + 1])
  IN  loop[2, st]

\* ALPHANUMERIC_MAP[a] * 45 + ALPHANUMERIC_MAP[b]: NaN when either is undefined
AlnumPair(a, b) ==
  IF ALPHANUMERIC_MAP(a) = UNDEF \/ ALPHANUMERIC_MAP(b) = UNDEF THEN NAN
  ELSE ALPHANUMERIC_MAP(a) * 45 + ALPHANUMERIC_MAP(b)

\* for (i = 1; i < data.length; i += 2) pack(pair, 11);
\* if (data.length % 2 == 1) pack(ALPHANUMERIC_MAP[data.charAt(i - 1)], 6);
packAlphanumeric(st, s) ==
  LET loop[i \in Nat, q \in PackStates] ==
        IF i < Len(s)
        THEN loop[i + 2, pack(q, AlnumPair(s[i], s[i + 1]), 11)]
        ELSE IF Len(s) % 2 = 1 THEN pack(q, ALPHANUMERIC_MAP(s[i]), 6) ELSE q
  IN  loop[1, st]

\* this.data[i] as the operand of >> and &: an element of a byte array is
\* itself, a character of a text is the number it writes (a digit) or NaN
OctetItem(d, i) ==
  IF d.type = "array" THEN d.v[i + 1]
  ELSE IF IsDigit(d.v[i + 1]) THEN d.v[i + 1] - 48 ELSE NAN

\* for (i = 0; i < data.length; ++i) pack(data[i], 8);
packOctet(st, d) ==
  LET loop[i \in Nat, q \in PackStates] ==
        IF i < Len(d.v) THEN loop[i + 1, pack(q, OctetItem(d, i), 8)] ELSE q
  IN  loop[0, st]

\* while (buf.length + 1 < maxbuflen) buf.push(0xec, 0x11);
\* if (buf.length < maxbuflen) buf.push(0xec);
padCodewords(b, maxbuflen) ==
  LET pairs == IF Len(b) + 1 < maxbuflen THEN (maxbuflen - Len(b)) \div 2 ELSE 0
      b1 == b \o [t \in 1..(2 * pairs) |-> IF t % 2 = 1 THEN 236 ELSE 17]
  IN  IF Len(b1) < maxbuflen THEN Append(b1, 236) ELSE b1

\* the table of packers has the keys NUMERIC, ALPHANUMERIC and OCTET: with
\* any other mode encode calls undefined, a TypeError
encodeThrows(m) == m \notin {MODE_NUMERIC, MODE_ALPHANUMERIC, MODE_OCTET}

\* the bits of mode, length and payload, before the terminator
encodePayload(d, m, v) ==
  LET st0 == PackState(<<>>, 0, 8)
      st1 == pack(st0, m, 4)
      st2 == pack(st1, Len(d.v), nDataLenBits(v, m))
  IN  CASE m = MODE_NUMERIC -> packNumeric(st2, d.v)
        [] m = MODE_ALPHANUMERIC -> packAlphanumeric(st2, d.v)
        [] m = MODE_OCTET -> packOctet(st2, d)

encode(d, m, v, maxbuflen) ==
  LET st3 == encodePayload(d, m, v)
      st4 == pack(st3, MODE_TERMINATOR, 4)
      b == IF st4.remaining < 8 THEN Append(st4.buf, st4.bits) ELSE st4.buf
  IN  padCodewords(b, maxbuflen)

(***************************************************************************)
(* calculateEcc and augumentEccs                                           *)
(***************************************************************************)
\* one round of the loop of calculateEcc, i already incremented:
\* for (j = 0; j < genpoly.length; ++j) modulus[i + j] ^= MAP[(quotient + genpoly[j]) % 255]
eccRound(modulus, i, quotient, genpoly) ==
  LET last == IF i + Len(genpoly) > Len(modulus) THEN i + Len(genpoly) ELSE Len(modulus)
      written == [t \in 1..last |->
                    LET j == (t - 1) - i
                    IN  IF j >= 0 /\ j < Len(genpoly)
                        THEN Xor(At(modulus, t - 1), GF256_MAP((quotient + genpoly[j + 1]) % 255))
                        ELSE IF t <= Len(modulus) THEN modulus[t] ELSE UNDEF]
  IN  SubSeq(written, 1, last)

\* modulus.push(new Array(genpoly.length).fill(0)) appends ONE element, the
\* array of zeros itself; then
\* for (i = 0; i < poly.length;) { quotient = INVMAP[modulus[i++]]; if (quotient >= 0) ... }
\* An element the loop never writes stays what it is, and the array ends at
\* the last element written
calculateEcc(poly, genpoly) ==
  LET loop[i \in Nat, modulus \in Seq(Int)] ==
        IF i < Len(poly)
        THEN LET quotient == GF256_INVMAP(At(modulus, i))
             IN  loop[i + 1, IF quotient >= 0 THEN eccRound(modulus, i + 1, quotient, genpoly)
                             ELSE modulus]
        ELSE modulus
      divided == loop[0, Append(poly, NESTED)]
  IN  SubSeq(divided, Len(poly) + 1, Len(divided))

\* subsizes[j]: where block j starts; the first pivot blocks are subsize long,
\* the others one longer
subsizeOf(len, nblocks, j) ==
  LET subsize == len \div nblocks
      pivot == nblocks - (len % nblocks)
  IN  IF j <= pivot THEN j * subsize ELSE pivot * subsize + (j - pivot) * (subsize + 1)

augumentEccs(poly, nblocks, genpoly) ==
  LET len == Len(poly)
      pivot == nblocks - (len % nblocks)
      nitemsperblock == len \div nblocks
      eccs == [b \in 1..nblocks |->
                 calculateEcc(Substring(poly, subsizeOf(len, nblocks, b - 1),
                                        subsizeOf(len, nblocks, b)), genpoly)]
      heads == [t \in 1..(nitemsperblock * nblocks) |->
                  LET i == (t - 1) \div nblocks
                      j == (t - 1) % nblocks
                  IN  At(poly, subsizeOf(len, nblocks, j) + i)]
      tails == [t \in 1..(nblocks - pivot) |->
                  At(poly, subsizeOf(len, nblocks, pivot + t) - 1)]
      checks == [t \in 1..(Len(genpoly) * nblocks) |->
                   LET i == (t - 1) \div nblocks
                       j == (t - 1) % nblocks
                   IN  At(eccs[j + 1], i)]
  IN  heads \o tails \o checks

(***************************************************************************)
(* The matrix: makeBaseMatrix, putData, maskData, putFormatInfo            *)
(***************************************************************************)
\* a matrix is a function of the row and then of the column, both from 0; a
\* cell never written reads UNDEF
Rows(n) == 0..(n - 1)
EmptyMatrix(n) == [i \in Rows(n) |-> [j \in Rows(n) |-> UNDEF]]
Grid(m, r) == [matrix |-> m, reserved |-> r]
Matrices(n) == [Rows(n) -> [Rows(n) -> Int]]

\* (x >> k) & 1
BitAt(x, k) == Shr(x, k) % 2

\* for (i = p - 1; i >= 0; --i) if ((modulus >> (q + i)) & 1) modulus ^= genpoly << i
RECURSIVE bchLoop(_, _, _, _)
bchLoop(modulus, i, genpoly, q) ==
  IF i < 0 THEN modulus
  ELSE bchLoop(IF BitAt(modulus, q + i) = 1 THEN BitXor(modulus, genpoly * Pow2(i)) ELSE modulus,
               i - 1, genpoly, q)

augumentbch(poly, p, genpoly, q) ==
  BitOr(poly * Pow2(q), bchLoop(poly * Pow2(q), p - 1, genpoly, q))

\* blit(y, x, h, w, bits) of makeBaseMatrix
blit(g, y, x, h, w, bits) ==
  LET inside(i, j) == i >= y /\ i < y + h /\ j >= x /\ j < x + w
  IN  Grid([i \in DOMAIN g.matrix |-> [j \in DOMAIN g.matrix |->
              IF inside(i, j) THEN BitAt(bits[(i - y) + 1], j - x) ELSE g.matrix[i][j]]],
           [i \in DOMAIN g.matrix |-> [j \in DOMAIN g.matrix |->
              IF inside(i, j) THEN 1 ELSE g.reserved[i][j]]])

\* the finder patterns with the area of the format information
stampFinders(g, n) ==
  LET g1 == blit(g, 0, 0, 9, 9, <<127, 65, 93, 93, 93, 65, 383, 0, 64>>)
      g2 == blit(g1, n - 8, 0, 8, 9, <<256, 127, 65, 93, 93, 93, 65, 127>>)
  IN  blit(g2, 0, n - 8, 9, 8, <<254, 130, 186, 186, 186, 130, 254, 0, 0>>)

\* for (i = 9; i < n - 8; ++i) { matrix[6][i] = matrix[i][6] = ~i & 1; reserved[6][i] = reserved[i][6] = 1 }
stampTiming(g, n) ==
  LET timing(i, j) == (i = 6 /\ j >= 9 /\ j < n - 8) \/ (j = 6 /\ i >= 9 /\ i < n - 8)
  IN  Grid([i \in Rows(n) |-> [j \in Rows(n) |->
              IF timing(i, j) THEN (IF (IF i = 6 THEN j ELSE i) % 2 = 0 THEN 1 ELSE 0)
              ELSE g.matrix[i][j]]],
           [i \in Rows(n) |-> [j \in Rows(n) |->
              IF timing(i, j) THEN 1 ELSE g.reserved[i][j]]])

\* the (i, j) of the alignment loop, in its order: j from minj to maxj - 1
alignPairs(m) ==
  LET minj(i) == IF i = 0 \/ i = m - 1 THEN 1 ELSE 0
      maxj(i) == IF i = 0 THEN m - 1 ELSE m
      cells == {<<i, j>> \in (0..(m - 1)) \X (0..(m - 1)) : j >= minj(i) /\ j < maxj(i)}
  IN  cells

RECURSIVE stampAligns(_, _, _)
stampAligns(g, aligns, todo) ==
  IF todo = {} THEN g
  ELSE LET c == CHOOSE c \in todo :
                  \A d \in todo : c[1] < d[1] \/ (c[1] = d[1] /\ c[2] <= d[2])
       IN  stampAligns(blit(g, aligns[c[1] + 1], aligns[c[2] + 1], 5, 5, <<31, 17, 21, 17, 31>>),
                       aligns, todo \ {c})

\* matrix[i][n - 11 + j] = matrix[n - 11 + j][i] = (code >> k++) & 1 for i < 6, j < 3
stampVersion(g, n, v) ==
  LET code == augumentbch(v, 6, 7973, 12)
      upper(i, j) == i < 6 /\ j >= n - 11 /\ j < n - 8
      lower(i, j) == j < 6 /\ i >= n - 11 /\ i < n - 8
  IN  Grid([i \in Rows(n) |-> [j \in Rows(n) |->
              IF upper(i, j) THEN BitAt(code, 3 * i + (j - (n - 11)))
              ELSE IF lower(i, j) THEN BitAt(code, 3 * j + (i - (n - 11)))
              ELSE g.matrix[i][j]]],
           [i \in Rows(n) |-> [j \in Rows(n) |->
              IF upper(i, j) \/ lower(i, j) THEN 1 ELSE g.reserved[i][j]]])

makeBaseMatrix(v) ==
  LET n == getSizeByVer(v)
      g0 == Grid(EmptyMatrix(n), EmptyMatrix(n))
      g1 == stampTiming(stampFinders(g0, n), n)
      g2 == stampAligns(g1, V2(v), alignPairs(Len(V2(v))))
  IN  IF needsVerInfo(v) THEN stampVersion(g2, n, v) ELSE g2

\* (buf[k >> 3] >> (~k & 7)) & 1: past the end of buf, and for an element
\* that is no number, 0
dataBit(b, k) == BitAt(At(b, k \div 8), 7 - (k % 8))

\* one pair of columns (i, i - 1), walked through all the rows in direction
\* dir, from counter k0 on: step t of the walk is row jj, column ii
putPair(g, b, n, i, dir, k0) ==
  LET rowAt(t) == IF dir < 0 THEN (n - 1) - (t \div 2) ELSE t \div 2
      colAt(t) == i - (t % 2)
      free(t) == g.reserved[rowAt(t)][colAt(t)] # 1
      before(t) == Cardinality({u \in 0..(t - 1) : free(u)})
      stepOf(r, c) == 2 * (IF dir < 0 THEN (n - 1) - r ELSE r) + (i - c)
  IN  [matrix |->
         [r \in Rows(n) |-> [c \in Rows(n) |->
            IF (c = i \/ c = i - 1) /\ g.reserved[r][c] # 1
            THEN dataBit(b, k0 + before(stepOf(r, c)))
            ELSE g.matrix[r][c]]],
       k |-> k0 + before(2 * n)]

\* for (i = n - 1; i >= 0; i -= 2) { if (i == 6) --i; ...; dir = -dir }
putData(g, b) ==
  LET n == Cardinality(DOMAIN g.matrix)
      loop[i \in Int, dir \in {-1, 1}, k \in Nat, mx \in Matrices(n)] ==
        IF i >= 0
        THEN LET col == IF i = 6 THEN i - 1 ELSE i
                 done == putPair(Grid(mx, g.reserved), b, n, col, dir, k)
             IN  loop[col - 2, -dir, done.k, done.matrix]
        ELSE mx
  IN  loop[n - 1, -1, 0, g.matrix]

\* MASKFUNCS[m](i, j)
MASKFUNCS(m, i, j) ==
  CASE m = 0 -> (i + j) % 2 = 0
    [] m = 1 -> i % 2 = 0
    [] m = 2 -> j % 3 = 0
    [] m = 3 -> (i + j) % 3 = 0
    [] m = 4 -> ((i \div 2) + (j \div 3)) % 2 = 0
    [] m = 5 -> ((i * j) % 2) + ((i * j) % 3) = 0
    [] m = 6 -> (((i * j) % 2) + ((i * j) % 3)) % 2 = 0
    [] m = 7 -> (((i + j) % 2) + ((i * j) % 3)) % 2 = 0

\* MASKFUNCS has the indexes 0..7: with any other, maskData calls undefined
maskDataThrows(m) == m \notin 0..7

\* maskData without its test of reserved: every cell is masked
maskDataUnreserved(mx, res, m) ==
  [i \in DOMAIN mx |-> [j \in DOMAIN mx |->
     Xor(mx[i][j], IF MASKFUNCS(m, i, j) THEN 1 ELSE 0)]]

\* if (!reserved[i][j]) matrix[i][j] ^= Number(MASKFUNCS[mask](i, j))
maskData(mx, res, m) ==
  [i \in DOMAIN mx |-> [j \in DOMAIN mx |->
     IF res[i][j] # 1 THEN Xor(mx[i][j], IF MASKFUNCS(m, i, j) THEN 1 ELSE 0) ELSE mx[i][j]]]

\* the rows r of the copy in column 8 and the columns c of the copy in row 8
formatRows(n) ==
  <<0, 1, 2, 3, 4, 5, 7, 8, n - 7, n - 6, n - 5, n - 4, n - 3, n - 2, n - 1>>
formatCols(n) ==
  <<n - 1, n - 2, n - 3, n - 4, n - 5, n - 6, n - 7, n - 8, 7, 5, 4, 3, 2, 1, 0>>

\* the format code without its XOR with 0x5412
formatCodePlain(e, m) == augumentbch(BitOr(e * 8, m), 5, 1335, 10)

\* augumentbch((this.ecclevel << 3) | mask, 5, 0x537, 10) ^ 0x5412
formatCode(e, m) == BitXor(augumentbch(BitOr(e * 8, m), 5, 1335, 10), 21522)

\* matrix[r][8] = matrix[8][c] = (code >> i) & 1 for i = 0..14
putFormatInfo(mx, e, m) ==
  LET n == Cardinality(DOMAIN mx)
      code == formatCode(e, m)
      inRows(i) == \E k \in 1..15 : formatRows(n)[k] = i
      inCols(j) == \E k \in 1..15 : formatCols(n)[k] = j
      rowBit(i) == (CHOOSE k \in 1..15 : formatRows(n)[k] = i) - 1
      colBit(j) == (CHOOSE k \in 1..15 : formatCols(n)[k] = j) - 1
  IN  [i \in DOMAIN mx |-> [j \in DOMAIN mx |->
         IF j = 8 /\ inRows(i) THEN BitAt(code, rowBit(i))
         ELSE IF i = 8 /\ inCols(j) THEN BitAt(code, colBit(j))
         ELSE mx[i][j]]]

(***************************************************************************)
(* evaluateMatrix and findBestMask                                         *)
(***************************************************************************)
PENALTY_CONSECUTIVE == 3
PENALTY_TWOBYTWO == 3
PENALTY_FINDERLIKE == 40
PENALTY_DENSITY == 10

\* the sum of f[lo], ..., f[hi]
RECURSIVE SumOver(_, _, _)
SumOver(f, lo, hi) ==
  IF lo > hi THEN 0
  ELSE IF lo = hi THEN f[lo]
  ELSE SumOver(f, lo, (lo + hi) \div 2) + SumOver(f, ((lo + hi) \div 2) + 1, hi)

\* comparisons of JavaScript: with undefined or NaN on a side, >= is false;
\* == holds between two undefined and between equal numbers
JsGeq(a, b) == a \notin {UNDEF, NAN} /\ b \notin {UNDEF, NAN} /\ a >= b
JsEq(a, b) == a # NAN /\ b # NAN /\ a = b
JsTimes(c, a) == IF a \in {UNDEF, NAN} THEN NAN ELSE c * a

\* where the run of truthy (val = 1) or falsy (val = 0) cells that starts at
\* j ends: for (...; j < n && row[j]; ...) ++j
runEnd(line, n, j, val) ==
  LET stops == {t \in j..(n - 1) : (IF Truthy(line[t]) THEN 1 ELSE 0) # val}
  IN  IF stops = {} THEN n ELSE CHOOSE t \in stops : \A u \in stops : t <= u

\* the loop over a row: the counter of the dark run is declared again inside
\* its own `for`, so what is pushed for a dark run is the outer k, undefined
rowGroups(line, n) ==
  LET loop[j \in Nat, groups \in Seq(Int)] ==
        IF j < n
        THEN LET j1 == runEnd(line, n, j, 1)
                 j2 == runEnd(line, n, j1, 0)
             IN  loop[j2, groups \o <<UNDEF, j2 - j1>>]
        ELSE groups
  IN  loop[0, <<0>>]

\* the loop over a column: both counters are the outer k
columnGroups(line, n) ==
  LET loop[j \in Nat, groups \in Seq(Int)] ==
        IF j < n
        THEN LET j1 == runEnd(line, n, j, 1)
                 j2 == runEnd(line, n, j1, 0)
             IN  loop[j2, groups \o <<j1 - j, j2 - j1>>]
        ELSE groups
  IN  loop[0, <<0>>]

evaluategroup(groups) ==
  LET len == Len(groups)
      consecutive == [t \in 1..len |->
                        IF JsGeq(groups[t], 5) THEN PENALTY_CONSECUTIVE + (groups[t] - 5) ELSE 0]
      finderlike(i) ==
        LET p == At(groups, i)
        IN  /\ JsEq(At(groups, i - 1), p)
            /\ JsEq(At(groups, i - 2), JsTimes(3, p))
            /\ JsEq(At(groups, i - 3), p)
            /\ JsEq(At(groups, i - 4), p)
            /\ (JsGeq(At(groups, i - 5), JsTimes(4, p)) \/ JsGeq(At(groups, i + 1), JsTimes(4, p)))
      finders == {i \in 5..(len - 1) : i % 2 = 1 /\ finderlike(i)}
  IN  SumOver(consecutive, 1, len) + PENALTY_FINDERLIKE * Cardinality(finders)

\* (Math.abs(nblacks / n / n - 0.5) / 0.05) | 0 in double precision: the
\* quotients 1/5, 2/5 and 3/5 are not doubles, and there the result is one
\* below the exact one; everywhere else it is the exact one
densitySteps(nblacks, n) ==
  LET d == IF 2 * nblacks >= n * n THEN 2 * nblacks - n * n ELSE n * n - 2 * nblacks
      exact == (10 * d) \div (n * n)
  IN  IF 5 * nblacks \in {n * n, 2 * n * n, 3 * n * n} THEN exact - 1 ELSE exact

evaluateMatrix(mx) ==
  LET n == Cardinality(DOMAIN mx)
      score[m \in Matrices(n)] ==
        LET lines == [i \in 1..n |->
                        evaluategroup(rowGroups(m[i - 1], n))
                          + evaluategroup(columnGroups([j \in Rows(n) |-> m[j][i - 1]], n))]
            boxes == {c \in Rows(n) \X (1..(n - 1)) :
                        /\ c[1] + 1 < n
                        /\ m[c[1]][c[2] - 1] = m[c[1]][c[2]]
                        /\ m[c[1] + 1][c[2]] = m[c[1]][c[2]]
                        /\ m[c[1] + 1][c[2] - 1] = m[c[1]][c[2]]}
            blacks == {c \in Rows(n) \X Rows(n) : m[c[1]][c[2]] = 1}
            unset == \E c \in Rows(n) \X Rows(n) : m[c[1]][c[2]] = UNDEF
        IN  SumOver(lines, 1, n) + PENALTY_TWOBYTWO * Cardinality(boxes)
              + PENALTY_DENSITY * (IF unset THEN 0 ELSE densitySteps(Cardinality(blacks), n))
  IN  score[mx]

\* findBestMask without the second maskData of each trial: the next mask is
\* applied on top of the masks tried before it
findBestMaskUnreverted(mx, res, e, m) ==
  LET n == Cardinality(DOMAIN mx)
      loop[t \in 0..8, cur \in Matrices(n), bestmask \in 0..7, bestscore \in Int] ==
        IF t < 8
        THEN LET trial == putFormatInfo(maskData(cur, res, t), e, t)
                 score == evaluateMatrix(trial)
                 better == t = 0 \/ bestscore > score
             IN  loop[t + 1, trial,
                      IF better THEN t ELSE bestmask, IF better THEN score ELSE bestscore]
        ELSE [matrix |-> cur, mask |-> bestmask]
  IN  IF m < 0 THEN loop[0, mx, 0, 0] ELSE [matrix |-> mx, mask |-> m]

\* maskData(0); putFormatInfo(0); bestscore = evaluateMatrix(); maskData(0); then
\* the same for mask 1..7, the best kept when bestscore > score
findBestMask(mx, res, e, m) ==
  LET n == Cardinality(DOMAIN mx)
      loop[t \in 0..8, cur \in Matrices(n), bestmask \in 0..7, bestscore \in Int] ==
        IF t < 8
        THEN LET trial == putFormatInfo(maskData(cur, res, t), e, t)
                 score == evaluateMatrix(trial)
                 better == t = 0 \/ bestscore > score
             IN  loop[t + 1, maskData(trial, res, t),
                      IF better THEN t ELSE bestmask, IF better THEN score ELSE bestscore]
        ELSE [matrix |-> cur, mask |-> bestmask]
  IN  IF m < 0 THEN loop[0, mx, 0, 0] ELSE [matrix |-> mx, mask |-> m]

(***************************************************************************)
(* generate(), one action for each of its calls.  pc says how far generate *)
(* has come; "aborted" is generate ended by a TypeError                    *)
(***************************************************************************)
\* let buf = this.encode(this.nDataBits() >> 3)
Encode ==
  /\ pc = "constructed"
  /\ IF encodeThrows(mode)
     THEN /\ pc' = "aborted"
          /\ err' = "TypeError"
          /\ buf' = buf
     ELSE /\ pc' = "encoded"
          /\ err' = err
          /\ buf' = encode(data, mode, ver, nDataBits(ver, ecclevel) \div 8)
  /\ UNCHANGED <<data, options, mode, ecclevel, mask, ver, matrix, reserved, ecc>>

\* buf = QrCode.augumentEccs(buf, v[1][this.ecclevel], QrCode.GF256.GENPOLY[v[0][this.ecclevel]])
AugumentEccs ==
  /\ pc = "encoded"
  /\ buf' = augumentEccs(buf, V1(ver, ecclevel), GENPOLY(V0(ver, ecclevel)))
  /\ pc' = "augmented"
  /\ UNCHANGED <<data, options, mode, ecclevel, mask, ver, matrix, reserved, err, ecc>>

\* this.makeBaseMatrix()
MakeBaseMatrix ==
  /\ pc = "augmented"
  /\ \E g \in {makeBaseMatrix(ver)} :
       /\ matrix' = g.matrix
       /\ reserved' = g.reserved
  /\ pc' = "based"
  /\ UNCHANGED <<data, options, mode, ecclevel, mask, ver, buf, err, ecc>>

\* this.putData(buf)
PutData ==
  /\ pc = "based"
  /\ matrix' = putData(Grid(matrix, reserved), buf)
  /\ pc' = "placed"
  /\ UNCHANGED <<data, options, mode, ecclevel, mask, ver, reserved, buf, err, ecc>>

\* this.findBestMask()
FindBestMask ==
  /\ pc = "placed"
  /\ \E best \in {findBestMask(matrix, reserved, ecclevel, mask)} :
       /\ matrix' = best.matrix
       /\ mask' = best.mask
  /\ pc' = "chosen"
  /\ UNCHANGED <<data, options, mode, ecclevel, ver, reserved, buf, err, ecc>>

\* this.maskData(this.mask)
MaskData ==
  /\ pc = "chosen"
  /\ IF maskDataThrows(mask)
     THEN /\ pc' = "aborted"
          /\ err' = "TypeError"
          /\ matrix' = matrix
     ELSE /\ pc' = "masked"
          /\ err' = err
          /\ matrix' = maskData(matrix, reserved, mask)
  /\ UNCHANGED <<data, options, mode, ecclevel, mask, ver, reserved, buf, ecc>>

\* this.putFormatInfo(this.mask); return this.matrix
PutFormatInfo ==
  /\ pc = "masked"
  /\ matrix' = putFormatInfo(matrix, ecclevel, mask)
  /\ pc' = "returned"
  /\ UNCHANGED <<data, options, mode, ecclevel, mask, ver, reserved, buf, err, ecc>>

Generate ==
  \/ Encode
  \/ AugumentEccs
  \/ MakeBaseMatrix
  \/ PutData
  \/ FindBestMask
  \/ MaskData
  \/ PutFormatInfo

(***************************************************************************)
(* calculateEcc on its own                                                 *)
(***************************************************************************)
\* QrCode.calculateEcc(poly, QrCode.GF256.GENPOLY[k])
CalculateEcc(poly, k) ==
  /\ pc = "new"
  /\ ecc' = [poly |-> poly, genpoly |-> GENPOLY(k), result |-> calculateEcc(poly, GENPOLY(k))]
  /\ pc' = "calculated"
  /\ UNCHANGED <<data, options, mode, ecclevel, mask, ver, matrix, reserved, buf, err>>

(***************************************************************************)
(* makeBaseMatrix, putData and maskData on their own                       *)
(***************************************************************************)
\* an instance whose constructor settled on version v
Versioned(v) ==
  /\ pc = "new"
  /\ ver' = v
  /\ pc' = "versioned"
  /\ UNCHANGED <<data, options, mode, ecclevel, mask, matrix, reserved, buf, err, ecc>>

\* this.makeBaseMatrix() of that instance, nothing after it
MakeBaseMatrixAlone ==
  /\ pc = "versioned"
  /\ \E g \in {makeBaseMatrix(ver)} :
       /\ matrix' = g.matrix
       /\ reserved' = g.reserved
  /\ pc' = "based alone"
  /\ UNCHANGED <<data, options, mode, ecclevel, mask, ver, buf, err, ecc>>

\* generate() of an instance of version v come to its call of makeBaseMatrix
\* with the codewords b in buf
Codewords(v, b) ==
  /\ pc = "new"
  /\ ver' = v
  /\ buf' = b
  /\ pc' = "augmented"
  /\ UNCHANGED <<data, options, mode, ecclevel, mask, matrix, reserved, err, ecc>>

\* this.maskData(m) on the matrix that putData filled, as findBestMask calls it
MaskOnce(m) ==
  /\ pc = "placed"
  /\ mask' = m
  /\ matrix' = maskData(matrix, reserved, m)
  /\ pc' = "masked once"
  /\ UNCHANGED <<data, options, mode, ecclevel, ver, reserved, buf, err, ecc>>

\* this.maskData(m) again, with the same m
MaskAgain ==
  /\ pc = "masked once"
  /\ matrix' = maskData(matrix, reserved, mask)
  /\ pc' = "masked twice"
  /\ UNCHANGED <<data, options, mode, ecclevel, mask, ver, reserved, buf, err, ecc>>

(***************************************************************************)
(* augumentEccs on its own                                                 *)
(***************************************************************************)
\* QrCode.augumentEccs(poly, nblocks, QrCode.GF256.GENPOLY[k])
AugumentEccsAlone(poly, nblocks, k) ==
  /\ pc = "new"
  /\ ecc' = [poly |-> poly, genpoly |-> GENPOLY(k), nblocks |-> nblocks,
             result |-> augumentEccs(poly, nblocks, GENPOLY(k))]
  /\ pc' = "interleaved"
  /\ UNCHANGED <<data, options, mode, ecclevel, mask, ver, matrix, reserved, buf, err>>

(***************************************************************************)
(* Inputs and specifications                                               *)
(***************************************************************************)
MaxTextLen == 2
MaxGenTextLen == 1

\* code units of the texts tried: '0', '7', 'A', 'a' and U+00E9
Alphabet == {48, 55, 65, 97, 233}

SeqsUpTo(S, n) == UNION {[1..k -> S] : k \in 0..n}

RepeatText(c, n) == [i \in 1..n |-> c]

Text(s) == [type |-> "string", v |-> s]
Bytes(s) == [type |-> "array", v |-> s]

NoData == [type |-> "none", v |-> <<>>]
NoOptions == [ecclevel |-> NoOption, version |-> UNDEF, mode |-> NoOption, mask |-> UNDEF]
NoEcc == [poly |-> <<>>, genpoly |-> <<>>, result |-> <<>>]

Init ==
  /\ data = NoData
  /\ options = NoOptions
  /\ mode = UNDEF
  /\ ecclevel = UNDEF
  /\ mask = UNDEF
  /\ ver = UNDEF
  /\ matrix = <<>>
  /\ reserved = <<>>
  /\ buf = <<>>
  /\ pc = "new"
  /\ err = ""
  /\ ecc = NoEcc

\* the constructor alone, on short payloads of every kind and many options
CtorPayloads ==
  {Text(s) : s \in SeqsUpTo(Alphabet, MaxTextLen)}
    \cup {Bytes(<<>>), Bytes(<<0, 255>>), [type |-> "null", v |-> <<>>]}

CtorOptions ==
  [ecclevel : {NoOption, "L", "M", "Q", "H"},
   version : {UNDEF, -1, 0, 1, 40, 41},
   mode : {NoOption, "numeric", "alphanumeric", "octet", "kanji"},
   mask : {UNDEF, -2, -1, 0, 7, 8, 9}]

NextCtor == pc = "new" /\ \E d \in CtorPayloads, o \in CtorOptions : Constructor(d, o)

SpecCtor == Init /\ [][NextCtor]_vars

\* the constructor alone, on payloads as long as the capacity of some version
\* (in some mode, at the ECC level asked for) and one longer
CapLens(e) ==
  {getMaxDataLen(v, e, m) + d :
     v \in 1..MaxVersion, m \in {MODE_NUMERIC, MODE_ALPHANUMERIC, MODE_OCTET}, d \in {0, 1}}

CapOptions ==
  [ecclevel : {"L", "M", "Q", "H"},
   version : {UNDEF, 1, 40},
   mode : {NoOption, "numeric", "alphanumeric", "octet"},
   mask : {UNDEF}]

NextCap ==
  /\ pc = "new"
  /\ \E o \in CapOptions :
    \E n \in CapLens(ECCLEVELS(o.ecclevel)), c \in {55, 65} :
      \E d \in {Text(RepeatText(c, n))} : Constructor(d, o)

SpecCap == Init /\ [][NextCap]_vars

\* the whole life of an instance: new QrCode(d, o), then generate().  Short
\* texts with every mask, and texts that fill version 1 with every mode
ShortTexts == {Text(s) : s \in SeqsUpTo(Alphabet, MaxGenTextLen)}

FullTexts ==
  {Text(RepeatText(55, getMaxDataLen(1, e, m))) :
     e \in {ECC_L, ECC_H}, m \in {MODE_NUMERIC, MODE_ALPHANUMERIC, MODE_OCTET}}

GenInputs ==
  (ShortTexts \X [ecclevel : {"L", "M", "Q", "H"},
                  version : {UNDEF},
                  mode : {NoOption, "octet"},
                  mask : {UNDEF} \cup (0..8)])
    \cup ((ShortTexts \cup FullTexts) \X [ecclevel : {"L", "H"},
                                           version : {UNDEF, 1},
                                           mode : {NoOption, "numeric", "alphanumeric", "octet"},
                                           mask : {UNDEF, 8}])

New == pc = "new" /\ \E in \in GenInputs : Constructor(in[1], in[2])

Next == New \/ Generate

Spec == Init /\ [][Next]_vars

\* calculateEcc on every short block, of one byte at least, over a few
\* bytes, with the generators of a few degrees
MaxBlockLen == 3
EccBytes == {0, 1, 142, 255}
EccDegrees == {2, 7, 10}

NextEcc ==
  pc = "new" /\ \E poly \in SeqsUpTo(EccBytes, MaxBlockLen) \ {<<>>}, k \in EccDegrees :
                  CalculateEcc(poly, k)

SpecEcc == Init /\ [][NextEcc]_vars

\* makeBaseMatrix alone for every version, and makeBaseMatrix and then putData
\* for the first versions: on codeword streams of one bit for the very first
\* of them, and on full-length streams
MaxPlaceVersion == 7
MaxOneBitVersion == 2

OneBit(k, len) == [i \in 1..len |-> IF i = (k \div 8) + 1 THEN Pow2(7 - (k % 8)) ELSE 0]
FullStream(v, byte) == [i \in 1..(nFullBits(v) \div 8) |-> byte]

PlaceInputs ==
  {<<v, FullStream(v, byte)>> : v \in 1..MaxPlaceVersion, byte \in {255, 90}}
    \cup UNION {{<<v, OneBit(k, nFullBits(v) \div 8)>> : k \in 0..(8 * (nFullBits(v) \div 8) - 1)} :
                  v \in 1..MaxOneBitVersion}

NextPlace ==
  \/ \E v \in 1..MaxVersion : Versioned(v)
  \/ MakeBaseMatrixAlone
  \/ \E in \in PlaceInputs : Codewords(in[1], in[2])
  \/ MakeBaseMatrix
  \/ PutData

SpecPlace == Init /\ [][NextPlace]_vars

\* makeBaseMatrix and putData, then maskData once and again with every mask:
\* a version with no alignment pattern, one with one, and one with several
\* and with version information
MaskVersions == {1, 2, 7}
MaskInputs == {<<v, FullStream(v, byte)>> : v \in MaskVersions, byte \in {0, 90, 255}}

NextMask ==
  \/ \E in \in MaskInputs : Codewords(in[1], in[2])
  \/ MakeBaseMatrix
  \/ PutData
  \/ \E m \in 0..7 : MaskOnce(m)
  \/ MaskAgain

SpecMask == Init /\ [][NextMask]_vars

\* the whole life of an instance again, on the inputs that decide the mask:
\* short texts at every ECC level, the mask left to findBestMask or fixed
MaxSelectTextLen == 1
SelectInputs ==
  {Text(s) : s \in SeqsUpTo({48, 65, 97}, MaxSelectTextLen)}
    \X [ecclevel : {"L", "M", "Q", "H"},
        version : {UNDEF},
        mode : {NoOption, "octet"},
        mask : {UNDEF, 7}]

NextSelect == (pc = "new" /\ \E in \in SelectInputs : Constructor(in[1], in[2])) \/ Generate

SpecSelect == Init /\ [][NextSelect]_vars

\* augumentEccs on every short stream of codewords over a few bytes, split
\* in one block or more, none of them empty, with the generators of a few
\* degrees
MaxStreamLen == 4
MaxBlocks == 3
StreamBytes == {0, 1, 142}

NextAug ==
  pc = "new" /\ \E poly \in SeqsUpTo(StreamBytes, MaxStreamLen) \ {<<>>}, k \in EccDegrees :
                  \E nblocks \in 1..MaxBlocks :
                    nblocks <= Len(poly) /\ AugumentEccsAlone(poly, nblocks, k)

SpecAug == Init /\ [][NextAug]_vars

(***************************************************************************)
(* The claims                                                              *)
(***************************************************************************)
\* C1: for every successfully constructed QrCode, generate() returns a
\* square matrix of 4v+17 rows and 4v+17 columns in which every cell is 0 or
\* 1: generate never ends otherwise, and no cell of what it returns is unset
C1_GenerateReturnsBinaryMatrix ==
  /\ pc # "aborted"
  /\ pc = "returned" =>
       /\ ver \in 1..MaxVersion
       /\ DOMAIN matrix = Rows(4 * ver + 17)
       /\ \A i \in DOMAIN matrix :
            /\ DOMAIN matrix[i] = Rows(4 * ver + 17)
            /\ \A j \in DOMAIN matrix[i] : matrix[i][j] \in {0, 1}

\* the mode that the rules of detection give a payload
ExpectedMode(d) ==
  IF d.type = "array" THEN MODE_OCTET
  ELSE IF REGEXP_NUMERIC(d.v) THEN MODE_NUMERIC
  ELSE IF REGEXP_ALPHANUMERIC_OUT(d.v) THEN MODE_ALPHANUMERIC
  ELSE MODE_OCTET

\* C2: with no mode option the constructor resolves the mode to NUMERIC for
\* a text of digits, else to ALPHANUMERIC for a text of the upper-case
\* alphanumeric set, else to OCTET, and to OCTET for a byte sequence, which
\* it accepts; the mode of an instance is always one of the three
C2_ModeResolved ==
  /\ pc = "constructed" => mode \in {MODE_NUMERIC, MODE_ALPHANUMERIC, MODE_OCTET}
  /\ (pc = "constructed" /\ options.mode = NoOption) => mode = ExpectedMode(data)
  /\ (pc = "threw" /\ options.mode = NoOption /\ data.type = "array") => err # "TypeError"

\* the versions in which the payload fits, at the level and mode of the instance
FittingVersions ==
  {v \in 1..MaxVersion :
     /\ getMaxDataLen(v, ecclevel, mode) # UNDEF
     /\ Len(data.v) <= getMaxDataLen(v, ecclevel, mode)}

\* C3: with no version option, the constructor selects the smallest version
\* of 1..40 whose maximum payload length, at the ECC level and the resolved
\* mode, is at least the length of the payload, and it fails with 'too large
\* data' exactly when there is no such version
C3_SmallestFittingVersion ==
  (pc \in {"constructed", "threw"} /\ options.version = UNDEF
     /\ err \in {"", "too large data", "invalid mask"}) =>
    IF FittingVersions = {}
    THEN pc = "threw" /\ err = "too large data"
    ELSE /\ err # "too large data"
         /\ ver \in FittingVersions
         /\ \A v \in FittingVersions : ver <= v

\* a payload that fills its version exactly, a version above 1 selected for it
C3_SelectedAtCapacity ==
  /\ pc = "constructed"
  /\ options.version = UNDEF
  /\ ver > 1
  /\ Len(data.v) = getMaxDataLen(ver, ecclevel, mode)
  /\ Len(data.v) > getMaxDataLen(ver - 1, ecclevel, mode)

\* C4: the payload of an instance, also of one built with a version fixed
\* by the user, is no longer than the maximum payload length of its version,
\* ECC level and mode: a payload too long for the fixed version makes the
\* constructor fail
C4_PayloadFitsVersion ==
  pc = "constructed" =>
    /\ getMaxDataLen(ver, ecclevel, mode) # UNDEF
    /\ Len(data.v) <= getMaxDataLen(ver, ecclevel, mode)

\* C5: there is no instance whose payload has a character that its mode
\* does not permit: a NUMERIC payload matches ^\d*$, an ALPHANUMERIC one
\* ^[A-Za-z0-9 $%*+\-./:]*$
C5_PayloadMatchesMode ==
  pc = "constructed" =>
    /\ mode = MODE_NUMERIC => REGEXP_NUMERIC(data.v)
    /\ mode = MODE_ALPHANUMERIC => REGEXP_ALPHANUMERIC(data.v)

\* C6: the constructor fails for every mask that is not 0..7, -1 or absent,
\* so the mask of an instance is -1 (auto-selection) or an index 0..7 of the
\* mask functions
C6_MaskInRange ==
  /\ pc = "constructed" => mask \in (-1)..7
  /\ (pc = "threw" /\ err = "invalid mask") => options.mask \notin (-1)..7

\* C7: the constructor fails for every supplied version outside 1..40, 0 and
\* the negative ones included: a supplied version is in 1..40 in every
\* instance and is the version of the instance, never one selected instead
C7_SuppliedVersionInRange ==
  (pc = "constructed" /\ options.version # UNDEF) =>
    /\ options.version \in 1..MaxVersion
    /\ ver = options.version

\* bit k, from 0, of a stream of codewords, the high bit of a codeword first
StreamBit(b, k) == (b[(k \div 8) + 1] \div Pow2(7 - (k % 8))) % 2

\* the number written by the `width` bits of the stream that start at bit `from`
StreamField(b, from, width) ==
  SumOver([t \in 1..width |-> StreamBit(b, from + t - 1) * Pow2(width - t)], 1, width)

\* the bytes of a payload: of a text, its UTF-8 encoding
PayloadBytes(d) == IF d.type = "string" THEN Utf8(d.v) ELSE d.v

\* C8: in OCTET mode the length indicator holds the number of bytes of the
\* payload, a text being UTF-8 encoded first, and the codeword stream after
\* the mode and the length indicator reproduces these bytes, 8 bits each
C8_OctetStreamIsPayloadBytes ==
  (pc = "encoded" /\ mode = MODE_OCTET) =>
    LET bytes == PayloadBytes(data)
        lenbits == IF ver < 10 THEN 8 ELSE 16
    IN  /\ 4 + lenbits + 8 * Len(bytes) <= 8 * Len(buf)
        /\ StreamField(buf, 0, 4) = MODE_OCTET
        /\ StreamField(buf, 4, lenbits) = Len(bytes)
        /\ \A i \in 1..Len(bytes) : StreamField(buf, 4 + lenbits + 8 * (i - 1), 8) = bytes[i]

\* the number of bits that a payload of len characters takes in mode m
PayloadBits(m, len) ==
  CASE m = MODE_NUMERIC -> 10 * (len \div 3) + <<0, 4, 7>>[(len % 3) + 1]
    [] m = MODE_ALPHANUMERIC -> 11 * (len \div 2) + 6 * (len % 2)
    [] m = MODE_OCTET -> 8 * len

\* C9: for a payload no longer than the maximum payload length, the bits of
\* mode, length, payload and terminator are at most nDataBits(), and encode
\* returns exactly (nFullBits >> 3) - V[0][e] * V[1][e] codewords, never
\* more, also when the payload fills the capacity exactly
C9_EncodeFillsDataCodewords ==
  (pc = "encoded" /\ Len(data.v) <= getMaxDataLen(ver, ecclevel, mode)) =>
    /\ 4 + nDataLenBits(ver, mode) + PayloadBits(mode, Len(data.v)) + 4 <= nDataBits(ver, ecclevel)
    /\ Len(buf) = (nFullBits(ver) \div 8) - V0(ver, ecclevel) * V1(ver, ecclevel)

\* the product in GF(2^8), by the tables of logarithms
GfMul(a, b) ==
  IF a = 0 \/ b = 0 THEN 0 ELSE GF256_MAP((GF256_INVMAP(a) + GF256_INVMAP(b)) % 255)

\* the value at x of the polynomial whose coefficients are the first n
\* elements of word, the highest degree first
RECURSIVE GfEval(_, _, _)
GfEval(word, n, x) ==
  IF n = 0 THEN 0 ELSE BitXor(GfMul(GfEval(word, n - 1, x), x), word[n])

\* the codewords are k bytes, and the block followed by them is a multiple
\* of the generator, whose roots are the powers 0 .. k-1 of alpha
IsRemainder(block, codewords, k) ==
  /\ Len(codewords) = k
  /\ \A i \in 1..k : codewords[i] \in 0..255
  /\ \A r \in 0..(k - 1) :
       GfEval(block \o codewords, Len(block) + k, GF256_MAP(r)) = 0

\* C10: for every block of bytes, those that are all zero or end in zeros
\* included, and the generator of degree k, calculateEcc returns exactly k
\* codewords, each in 0..255, the remainder of the block times x^k divided by
\* the generator, so that the block followed by them is divisible by it
C10_EccIsRemainder ==
  pc = "calculated" => IsRemainder(ecc.poly, ecc.result, Len(ecc.genpoly))

\* the matrix that putData filled, from which maskData started
Unmasked == putData(makeBaseMatrix(ver), buf)

\* C11: for every mask 0..7 and every matrix that makeBaseMatrix and putData
\* produced, one call of maskData leaves every reserved cell as it was and
\* flips exactly the other cells where the condition of the mask holds, and
\* a second call with the same mask gives every cell its prior value again
C11_MaskDataTwiceRestores ==
  pc \in {"masked once", "masked twice"} =>
    \E prior \in {Unmasked} :
      IF pc = "masked twice" THEN matrix = prior
      ELSE \A i \in DOMAIN matrix : \A j \in DOMAIN matrix :
             matrix[i][j] = IF reserved[i][j] # 1 /\ MASKFUNCS(mask, i, j)
                            THEN 1 - prior[i][j] ELSE prior[i][j]

\* a matrix with version information masked twice with mask 7, where the
\* mask has flipped a dark cell and flipped it back
C11_DarkCellRestored ==
  /\ pc = "masked twice"
  /\ needsVerInfo(ver)
  /\ mask = 7
  /\ \E i \in DOMAIN matrix : \E j \in DOMAIN matrix :
       reserved[i][j] # 1 /\ MASKFUNCS(mask, i, j) /\ matrix[i][j] = 1

\* the remainder of the polynomial x over GF(2), of degree at most top, by
\* the polynomial g of degree deg
RECURSIVE Gf2Mod(_, _, _, _)
Gf2Mod(x, top, g, deg) ==
  IF top < deg THEN x
  ELSE Gf2Mod(IF BitAt(x, top) = 1 THEN BitXor(x, g * Pow2(top - deg)) ELSE x, top - 1, g, deg)

\* code is the 15 bits of format information of ECC index e and mask m: once
\* XORed with 0x5412, its high 5 bits are (e << 3) | m and it is a multiple
\* of the generator 0x537
IsFormatCode(code, e, m) ==
  /\ code \in 0..32767
  /\ \E raw \in {BitXor(code, 21522)} :
       /\ raw \div 1024 = 8 * e + m
       /\ Gf2Mod(raw, 14, 1335, 10) = 0

\* where bit i = 0..14 of the format information is: in column 8 at these
\* rows, and in row 8 at these columns
FormatRowCoords(n) ==
  <<0, 1, 2, 3, 4, 5, 7, 8, n - 7, n - 6, n - 5, n - 4, n - 3, n - 2, n - 1>>
FormatColCoords(n) ==
  <<n - 1, n - 2, n - 3, n - 4, n - 5, n - 6, n - 7, n - 8, 7, 5, 4, 3, 2, 1, 0>>

\* the two copies of the format information, read from a matrix
FormatCopyInColumn8(mx) ==
  SumOver([i \in 1..15 |-> mx[FormatRowCoords(Cardinality(DOMAIN mx))[i]][8] * Pow2(i - 1)], 1, 15)
FormatCopyInRow8(mx) ==
  SumOver([i \in 1..15 |-> mx[8][FormatColCoords(Cardinality(DOMAIN mx))[i]] * Pow2(i - 1)], 1, 15)

\* the masks whose application to the data cells of `unmasked` gives those of mx
MasksApplied(mx, res, unmasked) ==
  {m \in 0..7 :
     \A i \in DOMAIN mx : \A j \in DOMAIN mx :
       res[i][j] # 1 =>
         mx[i][j] = IF MASKFUNCS(m, i, j) THEN 1 - unmasked[i][j] ELSE unmasked[i][j]}

\* C12: in the matrix that generate() returns, for every ECC level and every
\* mask, fixed by the user or selected, the two copies of the format
\* information are equal bit by bit, and they are the BCH code with
\* generator 0x537 of (ecc index << 3) | mask, XORed with 0x5412, for the
\* mask that was applied to the data cells
C12_FormatInfoOfAppliedMask ==
  pc = "returned" =>
    /\ MasksApplied(matrix, reserved, Unmasked) = {mask}
    /\ FormatCopyInColumn8(matrix) = FormatCopyInRow8(matrix)
    /\ IsFormatCode(FormatCopyInColumn8(matrix), ecclevel, mask)

\* a returned matrix of level Q whose mask was selected and is not mask 0
C12_SelectedMaskReturned ==
  /\ pc = "returned"
  /\ options.mask = UNDEF
  /\ ecclevel = ECC_Q
  /\ mask \in 1..7

\* the penalty scores of the eight masks, each applied alone to the data
\* that putData placed, with its own format information
TrialScores(unmasked, res, e) ==
  [t \in 0..7 |-> evaluateMatrix(putFormatInfo(maskData(unmasked, res, t), e, t))]

\* the mask of the lowest score, the lowest index among equal scores
LowestScoreMask(scores) ==
  CHOOSE m \in 0..7 :
    /\ \A t \in 0..7 : scores[m] <= scores[t]
    /\ \A t \in 0..(m - 1) : scores[t] > scores[m]

\* C13: when the user fixed no mask, findBestMask leaves the data as putData
\* placed it, every trial mask reverted, and selects the mask that, applied
\* alone to that data with its format information, has the lowest penalty
\* score, the lowest index among equal scores; generate() then applies
\* exactly that mask, once, to that data
C13_LowestPenaltyMaskApplied ==
  (pc \in {"chosen", "returned"} /\ options.mask = UNDEF) =>
    \E unmasked \in {Unmasked} :
      /\ mask = LowestScoreMask(TrialScores(unmasked, reserved, ecclevel))
      /\ pc = "chosen" =>
           \A i \in DOMAIN matrix : \A j \in DOMAIN matrix :
             reserved[i][j] # 1 => matrix[i][j] = unmasked[i][j]
      /\ pc = "returned" => MasksApplied(matrix, reserved, unmasked) = {mask}

\* a returned matrix whose mask was selected, a mask that is neither the
\* first nor the last tried, and that beat an earlier mask
C13_LaterMaskSelected ==
  /\ pc = "returned"
  /\ options.mask = UNDEF
  /\ mask \in 1..6

\* the matrix with its rows as columns
Transpose(mx) == [i \in DOMAIN mx |-> [j \in DOMAIN mx |-> mx[j][i]]]

\* the lengths of the runs of a line, dark and light in turn, after a first
\* white group of length 0
RunLengths(line, n) == columnGroups(line, n)

\* C14: evaluateMatrix builds the list of run lengths of a row as it builds
\* that of a column, a first white group of length 0 and then the dark and
\* the light runs, so that every run of 5 or more, dark or light, counts in
\* rows as in columns, and the score of a matrix is the score of its transpose
C14_RowsScoredAsColumns ==
  pc = "returned" =>
    /\ \A i \in DOMAIN matrix :
         rowGroups(matrix[i], Cardinality(DOMAIN matrix))
           = RunLengths(matrix[i], Cardinality(DOMAIN matrix))
    /\ evaluateMatrix(matrix) = evaluateMatrix(Transpose(matrix))

\* the n consecutive blocks of a stream of L codewords: the first
\* n - (L mod n) of floor(L / n) codewords, the others of one more
BlockLength(L, n, j) == IF j < n - (L % n) THEN L \div n ELSE (L \div n) + 1
BlockStart(L, n, j) == SumOver([t \in 1..n |-> BlockLength(L, n, t - 1)], 1, j)
BlockOf(stream, n, j) ==
  [i \in 1..BlockLength(Len(stream), n, j) |-> stream[BlockStart(Len(stream), n, j) + i]]

\* where the data codeword at place t (from 1) of the result comes from in
\* the stream: codeword i of each block in block order for i below
\* floor(L / n), then the last codeword of each long block
DataSource(L, n, t) ==
  IF t <= (L \div n) * n
  THEN BlockStart(L, n, (t - 1) % n) + ((t - 1) \div n) + 1
  ELSE BlockStart(L, n, (n - (L % n)) + (t - (L \div n) * n - 1)) + (L \div n) + 1

\* the ECC codewords of block j in the result: after the L data codewords,
\* codeword i of each block in block order
EccPart(result, L, n, k, j) == [i \in 1..k |-> result[L + (i - 1) * n + j + 1]]

\* the data part of the result of augumentEccs: its length and its order
DataInterleaved(stream, n, k, result) ==
  /\ Len(result) = Len(stream) + k * n
  /\ \A t \in 1..Len(stream) : result[t] = stream[DataSource(Len(stream), n, t)]
  /\ {DataSource(Len(stream), n, t) : t \in 1..Len(stream)} = 1..Len(stream)

\* C15: augumentEccs splits the stream into n consecutive blocks, the first
\* n - (L mod n) of floor(L / n) codewords and the others of one more, and
\* returns codeword i of each block in block order, then the last codeword
\* of each long block, then ECC codeword i of each block in block order for
\* i below k: L + k * n codewords, every data codeword exactly once, the
\* ECC codewords of a block being its k remainder bytes
C15_BlocksInterleaved ==
  pc = "interleaved" =>
    /\ DataInterleaved(ecc.poly, ecc.nblocks, Len(ecc.genpoly), ecc.result)
    /\ \A j \in 0..(ecc.nblocks - 1) :
         IsRemainder(BlockOf(ecc.poly, ecc.nblocks, j),
                     EccPart(ecc.result, Len(ecc.poly), ecc.nblocks, Len(ecc.genpoly), j),
                     Len(ecc.genpoly))

\* the cells of a matrix that are not reserved
FreeCells(res) ==
  {c \in (DOMAIN res) \X (DOMAIN res) : res[c[1]][c[2]] # 1}

\* the number of cells that carry codewords in version v, with m alignment
\* centres
CodewordCells(v, m) ==
  16 * v * v + 128 * v + 64 - (IF v >= 7 THEN 36 ELSE 0)
    - (IF m > 0 THEN 25 * m * m - 10 * m - 55 ELSE 0)

\* the number of bits that are 1 in a stream of codewords
BitsSet(b) ==
  SumOver([i \in 1..Len(b) |-> SumOver([t \in 1..8 |-> BitAt(b[i], t - 1)], 1, 8)], 1, Len(b))

\* C16: for every version, after makeBaseMatrix the cells that are not
\* reserved are nFullBits() many, 16v^2 + 128v + 64, less 36 from version 7
\* on, less 25m^2 - 10m - 55 with m > 0 alignment centres, and column 6 is
\* reserved; putData then leaves every reserved cell as it was and writes
\* every other cell, each with a bit of its own of the stream: all the bits
\* of a stream of nFullBits() >> 3 codewords are placed, and the cells left
\* over, fewer than 8, are 0
C16_PutDataFillsFreeCells ==
  /\ pc \in {"based alone", "based", "placed"} =>
       /\ Cardinality(FreeCells(reserved)) = nFullBits(ver)
       /\ nFullBits(ver) = CodewordCells(ver, Len(V2(ver)))
       /\ \A i \in DOMAIN reserved : reserved[i][6] = 1
  /\ pc = "placed" =>
       /\ \E base \in {makeBaseMatrix(ver).matrix} :
            \A i \in DOMAIN matrix : \A j \in DOMAIN matrix :
              IF reserved[i][j] = 1 THEN matrix[i][j] = base[i][j]
              ELSE matrix[i][j] \in {0, 1}
       /\ Len(buf) <= nFullBits(ver) \div 8 =>
            Cardinality({c \in FreeCells(reserved) : matrix[c[1]][c[2]] = 1}) = BitsSet(buf)
       /\ nFullBits(ver) - 8 * (nFullBits(ver) \div 8) < 8

\* a full-length stream of codewords 0xFF placed in a symbol with an
\* alignment pattern, whose cells are not a multiple of 8: all are dark but
\* the cells left over
C16_LeftOverCellsZero ==
  /\ pc = "placed"
  /\ Len(V2(ver)) > 0
  /\ buf = FullStream(ver, 255)
  /\ nFullBits(ver) % 8 > 0
  /\ Cardinality({c \in FreeCells(reserved) : matrix[c[1]][c[2]] = 0}) = nFullBits(ver) % 8

====
